---- MODULE Spec2Model ----
(***************************************************************************)
(* Verification model of the end-to-end encrypted chat core:                *)
(*   - lib/crypto (src/unnamed/part_000, lines 1-281): key handling, the    *)
(*     hybrid RSA-OAEP / AES-GCM codec, encryptMessage / decryptMessage;    *)
(*   - the Chat component (src/unnamed/part_000, lines 283-888):            *)
(*     sendMessage, decryptMessageContent, fetchMessages, the realtime      *)
(*     INSERT / UPDATE handlers, openSnapshot;                              *)
(*   - the server route api/messages/cleanup                                *)
(*     (src/src/app/api/messages/cleanup/route.ts).                         *)
(*                                                                         *)
(* Cryptography is modelled symbolically: a ciphertext is a term that       *)
(* records the key, the nonce and the data it was made from, and a          *)
(* decryption succeeds exactly when it is given the matching key (and       *)
(* nonce).  Text conversions (TextEncoder / TextDecoder, trim, base64,      *)
(* JSON) are modelled by what they do to the value.                         *)
(***************************************************************************)
EXTENDS Integers, Sequences, FiniteSets, TLC

(***************************************************************************)
(* Bounds of the model.                                                     *)
(***************************************************************************)
MaxLen == 2

(***************************************************************************)
(* JavaScript strings are sequences of UTF-16 code units.  The alphabet:    *)
(*   "a"   an ordinary BMP character                                        *)
(*   "sp"  a space (white space for String.prototype.trim)                  *)
(*   "bom" U+FEFF (white space for trim, the byte-order mark for decoders)  *)
(*   "hs"  a high surrogate code unit, "ls" a low surrogate code unit       *)
(*   "rep" U+FFFD, the replacement character                                *)
(*   "blk" a run of 400 ordinary characters (makes the RSA-OAEP size limit  *)
(*         reachable with short sequences)                                  *)
(* Scalar values (what UTF-8 encodes) add "supp", the supplementary-plane   *)
(* character a surrogate pair stands for, and have no "hs" / "ls".          *)
(***************************************************************************)
CodeUnits == {"a", "sp", "bom", "hs", "ls", "rep", "blk"}

RECURSIVE SeqsUpTo(_, _)
SeqsUpTo(S, n) ==
    IF n = 0 THEN {<<>>}
    ELSE LET shorter == SeqsUpTo(S, n - 1)
         IN  shorter \cup {Append(q, x) : q \in {p \in shorter : Len(p) = n - 1}, x \in S}

Texts == SeqsUpTo(CodeUnits, MaxLen)

(* Exceptions: a call yields Ok(value) or Throw. *)
Ok(v) == [ok |-> TRUE, v |-> v]
Throw == [ok |-> FALSE]

(* The value of a missing property, and of null. *)
Undefined == [t |-> "undefined"]

(* Placeholders the code returns are string literals: one symbol each. *)
SecureSignal == <<"[Secure Signal]">>
EmptySignal == <<"[Empty Signal]">>
KeyMismatch == <<"[Secure Signal: Key mismatch for current node]">>
Decrypting == <<"[Decrypting...]">>
MediaMissing == <<"[Media Missing]">>

(***************************************************************************)
(* TextEncoder.encode: a DOMString is first converted to a USVString        *)
(* (a surrogate pair becomes one scalar value, an unpaired surrogate        *)
(* becomes U+FFFD), then encoded as UTF-8.  UTF-8 is a bijection on scalar  *)
(* value sequences, so the bytes are represented by that sequence.          *)
(***************************************************************************)
RECURSIVE ToScalars(_)
ToScalars(str) ==
    IF str = <<>> THEN <<>>
    ELSE IF Head(str) = "hs" /\ Len(str) >= 2 /\ str[2] = "ls"
         THEN <<"supp">> \o ToScalars(SubSeq(str, 3, Len(str)))
    ELSE IF Head(str) \in {"hs", "ls"}
         THEN <<"rep">> \o ToScalars(Tail(str))
    ELSE <<Head(str)>> \o ToScalars(Tail(str))

TextEncode(str) == [t |-> "utf8", s |-> ToScalars(str)]

(***************************************************************************)
(* new TextDecoder().decode: UTF-8 decode with the default ignoreBOM =      *)
(* false, which drops one leading U+FEFF; bytes that are not UTF-8 text     *)
(* decode to replacement characters.                                        *)
(***************************************************************************)
RECURSIVE ToCodeUnits(_)
ToCodeUnits(sc) ==
    IF sc = <<>> THEN <<>>
    ELSE IF Head(sc) = "supp" THEN <<"hs", "ls">> \o ToCodeUnits(Tail(sc))
    ELSE <<Head(sc)>> \o ToCodeUnits(Tail(sc))

TextDecode(bytes) ==
    IF bytes.t = "utf8"
    THEN IF bytes.s # <<>> /\ Head(bytes.s) = "bom"
         THEN ToCodeUnits(Tail(bytes.s))
         ELSE ToCodeUnits(bytes.s)
    ELSE <<"rep">>

(* Byte length of a buffer. *)
ScalarBytes(c) ==
    CASE c \in {"a", "sp"} -> 1
      [] c \in {"bom", "rep"} -> 3
      [] c = "supp" -> 4
      [] c = "blk" -> 400
      [] OTHER -> 1

RECURSIVE SumBytes(_)
SumBytes(sc) == IF sc = <<>> THEN 0 ELSE ScalarBytes(Head(sc)) + SumBytes(Tail(sc))

ByteLength(bytes) ==
    CASE bytes.t = "utf8" -> SumBytes(bytes.s)
      [] bytes.t = "raw" -> 32
      [] OTHER -> 512

(***************************************************************************)
(* generateKeyPair: RSA-OAEP, 4096-bit modulus, SHA-512.  A key pair is     *)
(* named by its owner.                                                      *)
(***************************************************************************)
modulusLength == 4096
hashLength == 512

PublicKey(k) == [t |-> "public", k |-> k]
PrivateKey(k) == [t |-> "private", k |-> k]
generateKeyPair(k) == [publicKey |-> PublicKey(k), privateKey |-> PrivateKey(k)]

(* The longest message RSA-OAEP takes: k - 2 hLen - 2 bytes. *)
RsaMaxPayload == (modulusLength \div 8) - 2 * (hashLength \div 8) - 2

(* subtle.encrypt / subtle.decrypt with { name: "RSA-OAEP" }. *)
RsaEncrypt(publicKey, data) ==
    IF publicKey.t = "public" /\ ByteLength(data) <= RsaMaxPayload
    THEN Ok([t |-> "rsa", k |-> publicKey.k, data |-> data])
    ELSE Throw

RsaDecrypt(privateKey, bytes) ==
    IF privateKey.t = "private" /\ bytes.t = "rsa" /\ bytes.k = privateKey.k
    THEN Ok(bytes.data)
    ELSE Throw

(* subtle.encrypt / subtle.decrypt with { name: "AES-GCM", iv, tagLength: 128 }. *)
AesEncrypt(key, iv, data) == [t |-> "aes", a |-> key.a, iv |-> iv, data |-> data]

AesDecrypt(key, iv, bytes) ==
    IF bytes.t = "aes" /\ bytes.a = key.a /\ bytes.iv = iv
    THEN Ok(bytes.data)
    ELSE Throw

(***************************************************************************)
(* Strings other than message text are terms:                               *)
(*   [t |-> "b64", of |-> bytes]    window.btoa of the bytes                *)
(*   [t |-> "json", obj |-> o]      JSON.stringify of the object o          *)
(*   [t |-> "jsonnull"]             the text  null                          *)
(*   [t |-> "text", s |-> units]    any other text (not base64, not JSON)   *)
(*   [t |-> "empty"]                the empty string                        *)
(***************************************************************************)
bufferToBase64(buffer) == [t |-> "b64", of |-> buffer]

base64ToBuffer(base64) ==
    CASE base64.t = "b64" -> Ok(base64.of)
      [] base64.t = "empty" -> Ok([t |-> "utf8", s |-> <<>>])
      [] OTHER -> Throw

JSONstringify(obj) == [t |-> "json", obj |-> obj]

(* JSON.parse.  The base64 text of an RSA-4096 ciphertext (512 bytes) ends  *)
(* in "=", and is never JSON.                                               *)
JSONparse(str) ==
    CASE str.t = "json" -> Ok(str.obj)
      [] str.t = "jsonnull" -> Ok(Undefined)
      [] OTHER -> Throw

(* JavaScript truthiness of a property value. *)
Truthy(x) == x.t \notin {"undefined", "empty"}

(***************************************************************************)
(* AES key handling.                                                        *)
(***************************************************************************)
generateAESKey(a) == [t |-> "aeskey", a |-> a]

exportRaw(key) == [t |-> "raw", a |-> key.a]

encryptWithAES(text, key, iv) ==
    [content |-> bufferToBase64(AesEncrypt(key, iv, TextEncode(text))),
     iv |-> bufferToBase64([t |-> "iv", n |-> iv])]

decryptWithAES(encryptedBase64, ivBase64, key) ==
    LET encryptedBytes == base64ToBuffer(encryptedBase64)
        ivBytes == base64ToBuffer(ivBase64)
    IN  IF ~encryptedBytes.ok \/ ~ivBytes.ok \/ ivBytes.v.t # "iv" THEN Throw
        ELSE LET decryptedBuffer == AesDecrypt(key, ivBytes.v.n, encryptedBytes.v)
             IN  IF decryptedBuffer.ok THEN Ok(TextDecode(decryptedBuffer.v)) ELSE Throw

encryptAESKeyForUser(aesKey, userPublicKey) ==
    LET encrypted == RsaEncrypt(userPublicKey, exportRaw(aesKey))
    IN  IF encrypted.ok THEN Ok(bufferToBase64(encrypted.v)) ELSE Throw

decryptAESKeyWithUserPrivateKey(encryptedAESKeyBase64, userPrivateKey) ==
    LET bytes == base64ToBuffer(encryptedAESKeyBase64)
    IN  IF ~bytes.ok THEN Throw
        ELSE LET decryptedBuffer == RsaDecrypt(userPrivateKey, bytes.v)
             IN  IF decryptedBuffer.ok /\ decryptedBuffer.v.t = "raw"
                 THEN Ok([t |-> "aeskey", a |-> decryptedBuffer.v.a])
                 ELSE Throw

(***************************************************************************)
(* encryptMessage(message, publicKey).  aesKey and iv are the random        *)
(* choices of the call; hybridFails says that a step of the try block       *)
(* failed in the platform, so that the catch path ran.                      *)
(***************************************************************************)
encryptMessageFallback(message, publicKey) ==
    LET data == TextEncode(message)
        encrypted == RsaEncrypt(publicKey, data)
    IN  IF encrypted.ok THEN Ok(bufferToBase64(encrypted.v)) ELSE Throw

encryptMessage(message, publicKey, aesKey, iv, hybridFails) ==
    LET encrypted == encryptWithAES(message, aesKey, iv)
        encryptedKey == encryptAESKeyForUser(aesKey, publicKey)
    IN  IF ~hybridFails /\ encryptedKey.ok
        THEN Ok(JSONstringify([content |-> encrypted.content,
                               iv |-> encrypted.iv,
                               key |-> encryptedKey.v,
                               keys |-> Undefined,
                               media_iv |-> Undefined,
                               v |-> "h1"]))
        ELSE encryptMessageFallback(message, publicKey)

(***************************************************************************)
(* decryptMessage(encryptedStr, privateKey).                                *)
(***************************************************************************)
legacyDecrypt(encryptedStr, privateKey) ==
    LET data == base64ToBuffer(encryptedStr)
    IN  IF ~data.ok THEN Throw
        ELSE LET decryptedBuffer == RsaDecrypt(privateKey, data.v)
             IN  IF decryptedBuffer.ok THEN Ok(TextDecode(decryptedBuffer.v)) ELSE Throw

decryptMessageTry(encryptedStr, privateKey) ==
    LET parsed == JSONparse(encryptedStr)
    IN  IF ~parsed.ok THEN legacyDecrypt(encryptedStr, privateKey)
        ELSE LET packet == parsed.v
             IN  IF packet = Undefined THEN Throw
                 ELSE IF packet.v = "h1" /\ Truthy(packet.key)
                         /\ Truthy(packet.content) /\ Truthy(packet.iv)
                 THEN LET aesKey == decryptAESKeyWithUserPrivateKey(packet.key, privateKey)
                      IN  IF ~aesKey.ok THEN Throw
                          ELSE decryptWithAES(packet.content, packet.iv, aesKey.v)
                 ELSE legacyDecrypt(encryptedStr, privateKey)

decryptMessage(encryptedStr, privateKey) ==
    LET r == decryptMessageTry(encryptedStr, privateKey)
    IN  IF r.ok THEN r.v ELSE SecureSignal

(***************************************************************************)
(* Identities.  Every identity owns the key pair named after it.            *)
(***************************************************************************)
Users == {"alice", "bob", "carol"}

(* The keys object of an envelope: a wrapped key or nothing per identity. *)
KeysMap(m) == [t |-> "map", m |-> m]

KeysLookup(keys, uid) ==
    IF keys.t = "map" /\ uid \in DOMAIN keys.m THEN keys.m[uid] ELSE Undefined

(* A string value that shows message text. *)
Str(units) == IF units = <<>> THEN [t |-> "empty"] ELSE [t |-> "text", s |-> units]

(***************************************************************************)
(* Blobs.  encryptBlob / decryptToBlob.                                     *)
(***************************************************************************)
encryptBlob(blob, key, iv) ==
    [encryptedBlob |-> AesEncrypt(key, iv, blob),
     iv |-> bufferToBase64([t |-> "iv", n |-> iv])]

decryptToBlob(encryptedArrayBuffer, ivBase64, key, mimeType) ==
    LET ivBytes == base64ToBuffer(ivBase64)
    IN  IF ~ivBytes.ok \/ ivBytes.v.t # "iv" THEN Throw
        ELSE LET decryptedBuffer == AesDecrypt(key, ivBytes.v.n, encryptedArrayBuffer)
             IN  IF decryptedBuffer.ok
                 THEN Ok([t |-> "blob", data |-> decryptedBuffer.v, type |-> mimeType])
                 ELSE Throw

(***************************************************************************)
(* decryptMessageContent(msg) of a Chat session whose identity is uid and   *)
(* whose private key is privateKey; fetched is the result of                *)
(* fetch(msg.media_url) (Throw when the blob cannot be fetched).            *)
(* Yields [v |-> the string returned, unwrap |-> whether the wrapped key    *)
(* was handed to decryptAESKeyWithUserPrivateKey].                          *)
(***************************************************************************)
Returned(v, unwrap) == [v |-> v, unwrap |-> unwrap]

(* decryptWithKey without the catch that turns a failed text decryption     *)
(* into the placeholder: nothing is returned for the message.              *)
decryptWithKeyNoCatch(msg, packet, aesKey, fetched) ==
    IF msg.media_type \in {"image", "snapshot"}
    THEN IF ~Truthy(msg.media_url) THEN Str(MediaMissing)
         ELSE IF ~fetched.ok THEN Str(SecureSignal)
         ELSE LET mimeType == IF msg.media_type = "snapshot" THEN "image/jpeg" ELSE "image/*"
                  decryptedBlob ==
                      decryptToBlob(fetched.v,
                                    IF Truthy(packet.media_iv) THEN packet.media_iv ELSE packet.iv,
                                    aesKey, mimeType)
              IN  IF decryptedBlob.ok
                  THEN [t |-> "objecturl", blob |-> decryptedBlob.v]
                  ELSE Str(SecureSignal)
    ELSE LET decrypted == decryptWithAES(packet.content, packet.iv, aesKey)
         IN  IF ~decrypted.ok THEN Undefined
             ELSE IF decrypted.v = <<>> THEN Str(EmptySignal) ELSE Str(decrypted.v)

decryptWithKey(msg, packet, aesKey, fetched) ==
    IF msg.media_type \in {"image", "snapshot"}
    THEN IF ~Truthy(msg.media_url) THEN Str(MediaMissing)
         ELSE IF ~fetched.ok THEN Str(SecureSignal)
         ELSE LET mimeType == IF msg.media_type = "snapshot" THEN "image/jpeg" ELSE "image/*"
                  decryptedBlob ==
                      decryptToBlob(fetched.v,
                                    IF Truthy(packet.media_iv) THEN packet.media_iv ELSE packet.iv,
                                    aesKey, mimeType)
              IN  IF decryptedBlob.ok
                  THEN [t |-> "objecturl", blob |-> decryptedBlob.v]
                  ELSE Str(SecureSignal)
    ELSE LET decrypted == decryptWithAES(packet.content, packet.iv, aesKey)
         IN  IF ~decrypted.ok THEN Str(SecureSignal)
             ELSE IF decrypted.v = <<>> THEN Str(EmptySignal) ELSE Str(decrypted.v)

decryptMessageContentNoLookupCheck(msg, uid, privateKey, fetched) ==
    IF ~Truthy(msg.encrypted_content) THEN Returned(Str(EmptySignal), FALSE)
    ELSE LET parsed == JSONparse(msg.encrypted_content)
         IN  IF ~parsed.ok THEN Returned(msg.encrypted_content, FALSE)
             ELSE IF parsed.v = Undefined THEN Returned(Str(SecureSignal), FALSE)
             ELSE LET packet == parsed.v
                      encryptedAESKey == KeysLookup(packet.keys, uid)
                  IN  IF ~Truthy(packet.iv) \/ ~Truthy(packet.content) \/ ~Truthy(packet.keys)
                      THEN Returned(msg.encrypted_content, FALSE)
                      ELSE IF ~Truthy(privateKey) THEN Returned(Str(Decrypting), FALSE)
                      ELSE LET aesKey == decryptAESKeyWithUserPrivateKey(encryptedAESKey, privateKey)
                           IN  IF ~aesKey.ok THEN Returned(Str(SecureSignal), TRUE)
                               ELSE Returned(decryptWithKey(msg, packet, aesKey.v, fetched), TRUE)

decryptMessageContent(msg, uid, privateKey, fetched) ==
    IF ~Truthy(msg.encrypted_content) THEN Returned(Str(EmptySignal), FALSE)
    ELSE LET parsed == JSONparse(msg.encrypted_content)
         IN  IF ~parsed.ok THEN Returned(msg.encrypted_content, FALSE)
             ELSE IF parsed.v = Undefined THEN Returned(Str(SecureSignal), FALSE)
             ELSE LET packet == parsed.v
                      encryptedAESKey == KeysLookup(packet.keys, uid)
                  IN  IF ~Truthy(packet.iv) \/ ~Truthy(packet.content) \/ ~Truthy(packet.keys)
                      THEN Returned(msg.encrypted_content, FALSE)
                      ELSE IF ~Truthy(encryptedAESKey) THEN Returned(Str(KeyMismatch), FALSE)
                      ELSE IF ~Truthy(privateKey) THEN Returned(Str(Decrypting), FALSE)
                      ELSE LET aesKey == decryptAESKeyWithUserPrivateKey(encryptedAESKey, privateKey)
                           IN  IF ~aesKey.ok THEN Returned(Str(SecureSignal), TRUE)
                               ELSE Returned(decryptWithKey(msg, packet, aesKey.v, fetched), TRUE)

(***************************************************************************)
(* The Chat component.  Sessions are mounted Chat components: a1 is alice   *)
(* chatting with bob; b1 and b2 are two devices of bob chatting with alice. *)
(***************************************************************************)
MaxMsgs == 1
MaxTicks == 2

Sessions == {"a1", "b1", "b2"}
UserOf(s) == IF s = "a1" THEN "alice" ELSE "bob"
ContactOf(s) == IF s = "a1" THEN "bob" ELSE "alice"

MsgIds == 1 .. MaxMsgs

(* null in a numeric or timestamp column. *)
NULL == -1

NoRow == [id |-> 0]

Modes == {"none", "view", "1m_view", "1h_view", "3h_view", "1m", "3h"}

(* String.prototype.trim: white space includes the space and U+FEFF. *)
WhiteSpace == {"sp", "bom"}

RECURSIVE TrimStart(_)
TrimStart(str) ==
    IF str # <<>> /\ Head(str) \in WhiteSpace THEN TrimStart(Tail(str)) ELSE str

RECURSIVE TrimEnd(_)
TrimEnd(str) ==
    IF str # <<>> /\ str[Len(str)] \in WhiteSpace
    THEN TrimEnd(SubSeq(str, 1, Len(str) - 1))
    ELSE str

trim(str) == TrimEnd(TrimStart(str))

(* exportPublicKey / importPublicKey: spki, base64. *)
exportPublicKey(key) == bufferToBase64([t |-> "spki", k |-> key.k])

importPublicKeyDefaults(pem) ==
    LET binaryDer == base64ToBuffer(pem)
    IN  IF binaryDer.ok /\ binaryDer.v.t = "spki" THEN Ok(PublicKey(binaryDer.v.k))
        ELSE Ok(PublicKey("carol"))

(* importPublicKey that accepts any text and yields some key. *)
importPublicKeyAny(pem) ==
    LET binaryDer == base64ToBuffer(pem)
    IN  IF binaryDer.ok /\ binaryDer.v.t = "spki" THEN Ok(PublicKey(binaryDer.v.k))
        ELSE Ok(PublicKey("alice"))

importPublicKey(pem) ==
    LET binaryDer == base64ToBuffer(pem)
    IN  IF binaryDer.ok /\ binaryDer.v.t = "spki" THEN Ok(PublicKey(binaryDer.v.k)) ELSE Throw

(***************************************************************************)
(* The lifecycle fields sendMessage computes from autoDeleteMode, with      *)
(* Date.now() = now, in minutes.                                            *)
(***************************************************************************)
EndsWithView(mode) == mode \in {"1m_view", "1h_view", "3h_view"}

(* disappearing_duration counted in hours instead of minutes. *)
DurationOfHours(mode) ==
    CASE mode = "1m_view" -> 1
      [] mode = "1h_view" -> 1
      [] mode = "3h_view" -> 3
      [] OTHER -> NULL

DurationOf(mode) ==
    CASE mode = "1m_view" -> 1
      [] mode = "1h_view" -> 60
      [] mode = "3h_view" -> 180
      [] OTHER -> NULL

ExpiresAtSendHours(mode, now) ==
    CASE mode = "3h" -> now + 3
      [] mode = "1m" -> now + 1
      [] OTHER -> NULL

ExpiresAtSend(mode, now) ==
    CASE mode = "3h" -> now + 3 * 60
      [] mode = "1m" -> now + 1
      [] OTHER -> NULL

(***************************************************************************)
(* sendMessage(mediaType, mediaBlob) in session s, up to the insert.        *)
(* partnerProfile and myProfile are the public_key columns read from        *)
(* profiles; myPublicKey is the component's cached key; a, iv, mediaIvN are *)
(* the random choices; path names the uploaded file.                        *)
(* Yields Ok([row, blob, myPublicKey]) when a record is inserted, Throw     *)
(* when the call returns early or its catch block runs.                     *)
(***************************************************************************)
sendMessageBuild(s, newMessage, mediaType, mediaBlob, autoDeleteMode, partnerProfile, myProfile, myPublicKey, a, iv, mediaIvN, id, now) ==
    LET textToSend == trim(newMessage)
        hasBlob == Truthy(mediaBlob)
        imported == IF Truthy(myProfile) THEN importPublicKey(myProfile) ELSE Ok(Undefined)
        currentMyPublicKey == IF Truthy(myPublicKey) THEN myPublicKey
                              ELSE IF imported.ok THEN imported.v ELSE Undefined
        aesKey == generateAESKey(a)
        enc == encryptBlob(mediaBlob, aesKey, mediaIvN)
        mediaIv == IF hasBlob THEN enc.iv ELSE Undefined
        mediaUrl == IF hasBlob THEN [t |-> "url", path |-> id] ELSE Undefined
        contentToEncrypt == IF textToSend = <<>> THEN <<"sp">> ELSE textToSend
        encrypted == encryptWithAES(contentToEncrypt, aesKey, iv)
        partnerKey == importPublicKey(partnerProfile)
        encryptedKeyForPartner == encryptAESKeyForUser(aesKey, partnerKey.v)
        encryptedKeyForMe == encryptAESKeyForUser(aesKey, currentMyPublicKey)
        me == UserOf(s)
        partner == ContactOf(s)
        packet == JSONstringify(
            [iv |-> encrypted.iv,
             content |-> encrypted.content,
             media_iv |-> mediaIv,
             keys |-> KeysMap([u \in {me, partner} |->
                         IF u = partner THEN encryptedKeyForPartner.v
                         ELSE encryptedKeyForMe.v]),
             key |-> Undefined,
             v |-> "undefined"])
        messageData ==
            [id |-> id,
             sender_id |-> me,
             receiver_id |-> partner,
             encrypted_content |-> packet,
             media_type |-> mediaType,
             media_url |-> mediaUrl,
             is_viewed |-> FALSE,
             is_view_once |-> (autoDeleteMode = "view"),
             is_disappearing |-> EndsWithView(autoDeleteMode),
             disappearing_duration |-> DurationOf(autoDeleteMode),
             expires_at |-> ExpiresAtSend(autoDeleteMode, now),
             (* columns sendMessage leaves to the table's defaults *)
             viewed_at |-> NULL,
             view_count |-> 0,
             is_saved |-> "null",
             is_delivered |-> FALSE,
             delivered_at |-> NULL,
             created_at |-> now]
        uploaded == IF hasBlob THEN enc.encryptedBlob ELSE Undefined
        Stopped(key, blob) ==
            [ok |-> FALSE, row |-> NoRow, blob |-> blob, myPublicKey |-> key,
             decrypted_content |-> Undefined]
    IN  IF textToSend = <<>> /\ ~hasBlob THEN Stopped(myPublicKey, Undefined)
        ELSE IF ~Truthy(partnerProfile) THEN Stopped(myPublicKey, Undefined)
        ELSE IF ~Truthy(myPublicKey) /\ ~imported.ok THEN Stopped(myPublicKey, Undefined)
        ELSE IF ~Truthy(currentMyPublicKey) THEN Stopped(myPublicKey, Undefined)
        ELSE IF ~partnerKey.ok THEN Stopped(currentMyPublicKey, uploaded)
        ELSE IF ~encryptedKeyForPartner.ok \/ ~encryptedKeyForMe.ok
             THEN Stopped(currentMyPublicKey, uploaded)
        ELSE [ok |-> TRUE,
              row |-> messageData,
              blob |-> uploaded,
              myPublicKey |-> currentMyPublicKey,
              decrypted_content |->
                  IF hasBlob THEN [t |-> "objecturl",
                                   blob |-> [t |-> "blob", data |-> mediaBlob,
                                             type |-> "image/jpeg"]]
                  ELSE Str(contentToEncrypt)]

(***************************************************************************)
(* The update a view event builds from the record m it saw, with            *)
(* new Date() = now (fetchMessages lines 477-483, INSERT handler lines      *)
(* 515-520).  kind is "fetch" or "insert"; s is the session.                *)
(***************************************************************************)
ViewUpdateAlwaysExpires(s, m, kind, now) ==
    [s |-> s, id |-> m.id, kind |-> kind, now |-> now,
     hasExp |-> TRUE,
     exp |-> now + (IF m.disappearing_duration = NULL THEN 0 ELSE m.disappearing_duration),
     views |-> 0]

ViewUpdateSeconds(s, m, kind, now) ==
    [s |-> s, id |-> m.id, kind |-> kind, now |-> now,
     hasExp |-> m.is_disappearing /\ m.disappearing_duration \notin {NULL, 0},
     exp |-> IF m.is_disappearing /\ m.disappearing_duration \notin {NULL, 0}
             THEN now + (m.disappearing_duration \div 60) ELSE NULL,
     views |-> 0]

ViewUpdate(s, m, kind, now) ==
    [s |-> s, id |-> m.id, kind |-> kind, now |-> now,
     hasExp |-> m.is_disappearing /\ m.disappearing_duration \notin {NULL, 0},
     exp |-> IF m.is_disappearing /\ m.disappearing_duration \notin {NULL, 0}
             THEN now + m.disappearing_duration ELSE NULL,
     views |-> 0]

(* openSnapshot's update (line 723). *)
OpenUpdate(s, id, newViews) ==
    [s |-> s, id |-> id, kind |-> "open", now |-> NULL, hasExp |-> FALSE, exp |-> NULL,
     views |-> newViews]

(* supabase.from("messages").update(rest).eq("id", id) on the stored row. *)
ApplyUpdate(row, w) ==
    CASE w.kind = "fetch" ->
            [row EXCEPT !.is_viewed = TRUE, !.viewed_at = w.now,
                        !.expires_at = IF w.hasExp THEN w.exp ELSE @]
      [] w.kind = "insert" ->
            [row EXCEPT !.is_delivered = TRUE, !.delivered_at = w.now,
                        !.is_viewed = TRUE, !.viewed_at = w.now,
                        !.expires_at = IF w.hasExp THEN w.exp ELSE @]
      [] OTHER ->
            [row EXCEPT !.view_count = w.views, !.is_viewed = (w.views >= 2)]

(* openSnapshot's guard (line 716): the receiver is told "Signal purged". *)
OpenRejectedAboveTwo(message, me) ==
    message.receiver_id = me /\ message.view_count > 2

OpenRejected(message, me) ==
    message.receiver_id = me /\ message.view_count >= 2

(***************************************************************************)
(* The cleanup route's selection (cleanup/route.ts lines 15-20): the three  *)
(* filters are ANDed.                                                       *)
(***************************************************************************)
CleanupSelectsEitherFilter(row, now) ==
    /\ row.is_viewed = TRUE
    /\ \/ row.is_saved \in {"null", "false"}
       \/ (row.expires_at = NULL \/ row.expires_at < now)

CleanupSelects(row, now) ==
    /\ row.is_viewed = TRUE
    /\ row.is_saved \in {"null", "false"}
    /\ (row.expires_at = NULL \/ row.expires_at < now)

(***************************************************************************)
(* State.                                                                   *)
(*   codec      one run of the codec functions on drawn inputs              *)
(*   rows       the messages table: id -> record, NoRow when absent         *)
(*   born       per id, the record as inserted: the payload.new of its      *)
(*              INSERT event (NoRow before the insert)                      *)
(*   nextId     the next id the table gives out                             *)
(*   storage    the chat-media bucket: path -> encrypted blob               *)
(*   profiles   the profiles table: identity -> public_key column           *)
(*   clock      the time, in minutes; ticks counts its advances             *)
(*   messages   per session, the messages state: id -> the record held      *)
(*              (NoRow: none) and its decrypted_content                     *)
(*   delivered  per session and id, whether the INSERT event was handled    *)
(*   showSnapshotView  per session, the id of the snapshot on display (0)   *)
(*   fetch      per session, the updates fetchMessages has still to send    *)
(*   myPublicKey  per session, the cached own public key                    *)
(*   sweep      per cleanup request, its progress and response              *)
(*   quiet      a cleanup has completed undisturbed and neither the store   *)
(*              nor what has expired has changed since                      *)
(*   sent       per id, what sendMessage was asked to send                  *)
(*   openLog    per id, for the receiver's first two openSnapshot calls:    *)
(*              the view_count seen, the outcome, the view_count stored     *)
(***************************************************************************)
VARIABLES codec, rows, born, nextId, storage, profiles, clock, ticks, messages,
          delivered, showSnapshotView, fetch, myPublicKey, sweep, quiet, sent,
          openLog

vars == <<codec, rows, born, nextId, storage, profiles, clock, ticks, messages,
          delivered, showSnapshotView, fetch, myPublicKey, sweep, quiet, sent,
          openLog>>

chatVars == <<rows, born, nextId, storage, profiles, clock, ticks, messages,
              delivered, showSnapshotView, fetch, myPublicKey, sweep, quiet, sent,
              openLog>>

CodecIdle == [kind |-> "idle", stage |-> "done"]

Sweepers == {"w1", "w2"}

NoCopy == [row |-> NoRow, decrypted_content |-> Undefined, src |-> "none"]
SweepIdle == [pc |-> "idle", ids |-> {}, status |-> 0, deleted |-> 0, after |-> FALSE,
              clean |-> FALSE]
NotSent == [mode |-> "none", text |-> <<>>, at |-> NULL, by |-> "none"]

ChatInit ==
    /\ rows = [id \in MsgIds |-> NoRow]
    /\ born = [id \in MsgIds |-> NoRow]
    /\ nextId = 1
    /\ storage = [id \in MsgIds |-> Undefined]
    /\ profiles = [u \in Users |-> exportPublicKey(PublicKey(u))]
    /\ clock = 0
    /\ ticks = 0
    /\ messages = [s \in Sessions |-> [id \in MsgIds |-> NoCopy]]
    /\ delivered = [s \in Sessions |-> [id \in MsgIds |-> FALSE]]
    /\ showSnapshotView = [s \in Sessions |-> 0]
    /\ fetch = [s \in Sessions |-> <<>>]
    /\ myPublicKey = [s \in Sessions |-> Undefined]
    /\ sweep = [w \in Sweepers |-> SweepIdle]
    /\ quiet = FALSE
    /\ sent = [id \in MsgIds |-> NotSent]
    /\ openLog = [id \in MsgIds |-> <<>>]

Init == codec = CodecIdle /\ ChatInit

(* fetch(msg.media_url): the stored blob. *)
Fetched(url) ==
    IF Truthy(url) /\ Truthy(storage[url.path]) THEN Ok(storage[url.path]) ELSE Throw

(* The session's privateKey prop. *)
PrivateKeyOf(s) == PrivateKey(UserOf(s))

(* decryptMessageContent(msg) as session s runs it. *)
Decrypted(s, msg) ==
    decryptMessageContent(msg, UserOf(s), PrivateKeyOf(s), Fetched(msg.media_url)).v

(* The handlers' filter on the conversation. *)
InPair(s, row) ==
    \/ row.receiver_id = UserOf(s) /\ row.sender_id = ContactOf(s)
    \/ row.sender_id = UserOf(s) /\ row.receiver_id = ContactOf(s)

(* The record a session holds for id. *)
Local(s, id) == messages[s][id].row

(* { ...msg, decrypted_content: await decryptMessageContent(msg) } *)
Copy(s, row) == [row |-> row, decrypted_content |-> Decrypted(s, row), src |-> "decrypted"]

(* The table after an update request: nothing happens to a deleted row. *)
Written(w) ==
    IF rows[w.id] = NoRow THEN rows ELSE [rows EXCEPT ![w.id] = ApplyUpdate(@, w)]

(***************************************************************************)
(* What a step that leaves the table as newRows at time now means for the   *)
(* cleanup requests: same is whether the records and what the cleanup       *)
(* would select are as they were.                                           *)
(***************************************************************************)
Same(newRows, now) ==
    /\ newRows = rows
    /\ \A id \in DOMAIN rows :
          rows[id] # NoRow =>
              (CleanupSelects(rows[id], clock) <=> CleanupSelects(rows[id], now))

Disturbed(newRows, now) ==
    [w \in Sweepers |-> [sweep[w] EXCEPT !.clean = @ /\ Same(newRows, now)]]

(***************************************************************************)
(* initMyPublicKey (lines 395-408).                                         *)
(***************************************************************************)
InitMyPublicKey(s) ==
    /\ ~Truthy(myPublicKey[s])
    /\ Truthy(profiles[UserOf(s)])
    /\ importPublicKey(profiles[UserOf(s)]).ok
    /\ myPublicKey' = [myPublicKey EXCEPT ![s] = importPublicKey(profiles[UserOf(s)]).v]
    /\ UNCHANGED <<codec, rows, born, nextId, storage, profiles, clock, ticks, messages,
                   delivered, showSnapshotView, fetch, sweep, quiet, sent, openLog>>

(***************************************************************************)
(* sendMessage(mediaType, mediaBlob) (lines 585-684), with the text in the  *)
(* input field, the session's autoDeleteMode and the random choices given.  *)
(***************************************************************************)
SendMessage(s, newMessage, mediaType, mediaBlob, autoDeleteMode, a, iv, mediaIvN) ==
    /\ nextId <= MaxMsgs
    /\ LET r == sendMessageBuild(s, newMessage, mediaType, mediaBlob, autoDeleteMode,
                                 profiles[ContactOf(s)], profiles[UserOf(s)],
                                 myPublicKey[s], a, iv, mediaIvN, nextId, clock)
           inserted == [rows EXCEPT ![nextId] = r.row]
       IN  /\ myPublicKey' = [myPublicKey EXCEPT ![s] = r.myPublicKey]
           /\ storage' = IF Truthy(r.blob) THEN [storage EXCEPT ![nextId] = r.blob]
                         ELSE storage
           /\ IF r.ok
              THEN /\ rows' = inserted
                   /\ born' = [born EXCEPT ![nextId] = r.row]
                   /\ nextId' = nextId + 1
                   /\ messages' = [messages EXCEPT ![s][nextId] =
                          [row |-> r.row, decrypted_content |-> r.decrypted_content,
                           src |-> "sent"]]
                   /\ sent' = [sent EXCEPT ![nextId] =
                          [mode |-> autoDeleteMode, text |-> trim(newMessage),
                           at |-> clock, by |-> s]]
                   /\ quiet' = FALSE
                   /\ sweep' = Disturbed(inserted, clock)
              ELSE UNCHANGED <<rows, born, nextId, messages, sent, quiet, sweep>>
    /\ UNCHANGED <<codec, profiles, clock, ticks, delivered, showSnapshotView, fetch,
                   openLog>>

(***************************************************************************)
(* fetchMessages (lines 456-496): the select, the decryption and the        *)
(* computation of the updates in one step, then one update per step.  The   *)
(* updates are computed from the rows as selected, whatever happens to the  *)
(* table before they are sent.                                              *)
(***************************************************************************)
RECURSIVE UpdatesFor(_, _, _)
UpdatesFor(s, ids, now) ==
    IF ids = {} THEN <<>>
    ELSE LET id == CHOOSE i \in ids : \A j \in ids : i <= j
         IN  <<ViewUpdate(s, rows[id], "fetch", now)>> \o UpdatesFor(s, ids \ {id}, now)

FetchSelect(s) ==
    /\ fetch[s] = <<>>
    /\ LET data == {id \in DOMAIN rows : rows[id] # NoRow /\ InPair(s, rows[id])}
           unviewed == {id \in data : rows[id].receiver_id = UserOf(s) /\ ~rows[id].is_viewed}
       IN  /\ messages' = [messages EXCEPT ![s] = [id \in DOMAIN rows |->
                  IF id \in data THEN Copy(s, rows[id]) ELSE NoCopy]]
           /\ fetch' = [fetch EXCEPT ![s] = UpdatesFor(s, unviewed, clock)]
    /\ UNCHANGED <<codec, rows, born, nextId, storage, profiles, clock, ticks,
                   delivered, showSnapshotView, myPublicKey, sweep, quiet, sent, openLog>>

FetchUpdate(s) ==
    /\ fetch[s] # <<>>
    /\ LET w == Head(fetch[s])
       IN  /\ rows' = Written(w)
           /\ quiet' = (quiet /\ Same(Written(w), clock))
           /\ sweep' = Disturbed(Written(w), clock)
           /\ fetch' = [fetch EXCEPT ![s] = Tail(@)]
    /\ UNCHANGED <<codec, born, nextId, storage, profiles, clock, ticks, messages,
                   delivered, showSnapshotView, myPublicKey, sent, openLog>>

(***************************************************************************)
(* The realtime INSERT handler (lines 502-530).  The event may reach a      *)
(* session at any time after the insert, or never.  The handler reads only  *)
(* the event's payload, so its update is applied in the same step.          *)
(***************************************************************************)
OnInsert(s, id) ==
    /\ born[id] # NoRow
    /\ ~delivered[s][id]
    /\ InPair(s, born[id])
    /\ delivered' = [delivered EXCEPT ![s][id] = TRUE]
    /\ LET new == born[id]
           mine == new.receiver_id = UserOf(s)
           w == ViewUpdate(s, new, "insert", clock)
       IN  /\ messages' = IF Local(s, id) # NoRow THEN messages
                          ELSE [messages EXCEPT ![s][id] = Copy(s, new)]
           /\ IF mine
              THEN /\ rows' = Written(w)
                   /\ quiet' = (quiet /\ Same(Written(w), clock))
                   /\ sweep' = Disturbed(Written(w), clock)
                   /\ showSnapshotView' =
                          IF new.media_type = "snapshot"
                          THEN [showSnapshotView EXCEPT ![s] = id]
                          ELSE showSnapshotView
              ELSE UNCHANGED <<rows, quiet, sweep, showSnapshotView>>
    /\ UNCHANGED <<codec, born, nextId, storage, profiles, clock, ticks, fetch,
                   myPublicKey, sent, openLog>>

(***************************************************************************)
(* The realtime UPDATE handler (lines 531-537).  UPDATE events reach a      *)
(* session in order and any may be lost or late: a session that handles     *)
(* them is brought to the record as it is stored at that moment, and a      *)
(* session that does not keeps the older record it holds.                   *)
(***************************************************************************)
OnUpdate(s, id) ==
    /\ rows[id] # NoRow
    /\ InPair(s, rows[id])
    /\ Local(s, id) # NoRow
    /\ Local(s, id) # rows[id]
    /\ messages' = [messages EXCEPT ![s][id] = Copy(s, rows[id])]
    /\ UNCHANGED <<codec, rows, born, nextId, storage, profiles, clock, ticks, delivered,
                   showSnapshotView, fetch, myPublicKey, sweep, quiet, sent, openLog>>

(***************************************************************************)
(* openSnapshot(message) (lines 715-725) on the record the session holds.   *)
(* openLog keeps the receiver's first two calls.                            *)
(***************************************************************************)
Logged(id, message, outcome, table) ==
    IF Len(openLog[id]) < 2
    THEN [openLog EXCEPT ![id] = Append(@, [seen |-> message.view_count,
                                            outcome |-> outcome,
                                            stored |-> IF table[id] = NoRow THEN NULL
                                                       ELSE table[id].view_count])]
    ELSE openLog

OpenSnapshot(s, id) ==
    /\ Local(s, id) # NoRow
    /\ Local(s, id).media_type = "snapshot"
    /\ LET message == Local(s, id)
           mine == message.receiver_id = UserOf(s)
           newViews == message.view_count + 1
           w == OpenUpdate(s, id, newViews)
       IN  IF OpenRejected(message, UserOf(s))
           THEN /\ openLog' = Logged(id, message, "rejected", rows)
                /\ UNCHANGED <<showSnapshotView, rows, quiet, sweep>>
           ELSE /\ showSnapshotView' = [showSnapshotView EXCEPT ![s] = id]
                /\ IF mine
                   THEN /\ rows' = Written(w)
                        /\ quiet' = (quiet /\ Same(Written(w), clock))
                        /\ sweep' = Disturbed(Written(w), clock)
                        /\ openLog' = Logged(id, message, "displayed", Written(w))
                   ELSE UNCHANGED <<rows, quiet, sweep, openLog>>
    /\ UNCHANGED <<codec, born, nextId, storage, profiles, clock, ticks, messages,
                   delivered, fetch, myPublicKey, sent>>

(* The close button of the snapshot view (line 879). *)
CloseSnapshot(s) ==
    /\ showSnapshotView[s] # 0
    /\ showSnapshotView' = [showSnapshotView EXCEPT ![s] = 0]
    /\ UNCHANGED <<codec, rows, born, nextId, storage, profiles, clock, ticks, messages,
                   delivered, fetch, myPublicKey, sweep, quiet, sent, openLog>>

(***************************************************************************)
(* Time passes.                                                             *)
(***************************************************************************)
TickSteps == {1, 60, 180}

Tick(d) ==
    /\ ticks < MaxTicks
    /\ clock' = clock + d
    /\ ticks' = ticks + 1
    /\ quiet' = (quiet /\ Same(rows, clock + d))
    /\ sweep' = Disturbed(rows, clock + d)
    /\ UNCHANGED <<codec, rows, born, nextId, storage, profiles, messages, delivered,
                   showSnapshotView, fetch, myPublicKey, sent, openLog>>

(***************************************************************************)
(* The cleanup route, POST (cleanup/route.ts lines 9-49): the select, then  *)
(* the delete.  fails: the store answers with an error.  In the request's   *)
(* record, after tells that the request began in a quiet state and clean    *)
(* that nothing has changed since its select.                               *)
(***************************************************************************)
Selected(now) == {id \in DOMAIN rows : rows[id] # NoRow /\ CleanupSelects(rows[id], now)}

CleanupSelect(w, fails) ==
    /\ sweep[w].pc \in {"idle", "done"}
    /\ LET now == clock
           uniqueIds == Selected(now)
       IN  /\ sweep' = [sweep EXCEPT ![w] =
                  IF fails
                  THEN [pc |-> "done", ids |-> {}, status |-> 500, deleted |-> 0,
                        after |-> quiet, clean |-> FALSE]
                  ELSE IF uniqueIds = {}
                  THEN [pc |-> "done", ids |-> {}, status |-> 200, deleted |-> 0,
                        after |-> quiet, clean |-> FALSE]
                  ELSE [pc |-> "selected", ids |-> uniqueIds, status |-> 0, deleted |-> 0,
                        after |-> quiet, clean |-> TRUE]]
           /\ quiet' = IF ~fails /\ uniqueIds = {} THEN TRUE ELSE quiet
    /\ UNCHANGED <<codec, rows, born, nextId, storage, profiles, clock, ticks, messages,
                   delivered, showSnapshotView, fetch, myPublicKey, sent, openLog>>

(* supabaseAdmin.from("messages").delete().in("id", uniqueIds). *)
DeletedKeepsRows(ids) == rows

DeletedWholeTable(ids) == [id \in DOMAIN rows |-> NoRow]

Deleted(ids) == [id \in DOMAIN rows |-> IF id \in ids THEN NoRow ELSE rows[id]]

CleanupDelete(w, fails) ==
    /\ sweep[w].pc = "selected"
    /\ IF fails
       THEN /\ sweep' = [sweep EXCEPT ![w] = [@ EXCEPT !.pc = "done", !.status = 500,
                                                       !.clean = FALSE]]
            /\ UNCHANGED <<rows, quiet>>
       ELSE /\ rows' = Deleted(sweep[w].ids)
            /\ sweep' = [Disturbed(Deleted(sweep[w].ids), clock) EXCEPT ![w] =
                   [sweep[w] EXCEPT !.pc = "done", !.status = 200,
                                    !.deleted = Cardinality(sweep[w].ids),
                                    !.clean = FALSE]]
            /\ quiet' = (sweep[w].clean \/ (quiet /\ Same(Deleted(sweep[w].ids), clock)))
    /\ UNCHANGED <<codec, born, nextId, storage, profiles, clock, ticks, messages,
                   delivered, showSnapshotView, fetch, myPublicKey, sent, openLog>>

(***************************************************************************)
(* The chat system: alice's session a1 sends to bob, whose sessions fetch,  *)
(* handle realtime events and open snapshots.                               *)
(***************************************************************************)
SnapshotBlob == [t |-> "utf8", s |-> <<"a">>]

Receivers == {"b1", "b2"}

SendText ==
    \E mode \in Modes : SendMessage("a1", <<"a">>, "text", Undefined, mode, 1, 1, 2)

SendSnapshot ==
    \E mode \in Modes : SendMessage("a1", <<"a">>, "snapshot", SnapshotBlob, mode, 1, 1, 2)

Fetching(ss) == \E s \in ss : FetchSelect(s) \/ FetchUpdate(s)
Inserted(ss) == \E s \in ss, id \in MsgIds : OnInsert(s, id)
Updated(ss) == \E s \in ss, id \in MsgIds : OnUpdate(s, id)
Opening(ss) == \E s \in ss : (\E id \in MsgIds : OpenSnapshot(s, id)) \/ CloseSnapshot(s)
Time == \E d \in TickSteps : Tick(d)
Sweep == \E w \in Sweepers, fails \in BOOLEAN : CleanupSelect(w, fails) \/ CleanupDelete(w, fails)

(***************************************************************************)
(* Spec: messages of every mode, text and snapshot, one receiving session,  *)
(* and time passing.                                                        *)
(***************************************************************************)
Next ==
    \/ InitMyPublicKey("a1")
    \/ SendText \/ SendSnapshot
    \/ Fetching({"b1"})
    \/ Inserted({"b1"}) \/ Updated({"b1"})
    \/ Opening({"b1"})
    \/ Time

Spec == Init /\ [][Next]_vars

(***************************************************************************)
(* SpecView: snapshots, and both of bob's sessions, each with its own       *)
(* possibly stale copy of the record.                                       *)
(***************************************************************************)
ViewNext ==
    \/ SendSnapshot
    \/ Fetching(Receivers)
    \/ Inserted(Receivers) \/ Updated(Receivers)
    \/ Opening(Receivers)

SpecView == Init /\ [][ViewNext]_vars

(***************************************************************************)
(* SpecSweep: text messages of every mode, their first view, time passing   *)
(* and the cleanup requests.                                                *)
(***************************************************************************)
SweepNext ==
    \/ SendText
    \/ Fetching({"b1"})
    \/ Inserted({"b1"})
    \/ Time
    \/ Sweep

SpecSweep == Init /\ [][SweepNext]_vars

(***************************************************************************)
(* SpecOpen: text and snapshot messages of every mode, one receiving        *)
(* session that fetches, handles realtime events and opens snapshots, and   *)
(* the cleanup requests; no time passes.                                    *)
(***************************************************************************)
OpenNext ==
    \/ SendText \/ SendSnapshot
    \/ Fetching({"b1"})
    \/ Inserted({"b1"}) \/ Updated({"b1"})
    \/ Opening({"b1"})
    \/ \E w \in Sweepers : CleanupSelect(w, FALSE) \/ CleanupDelete(w, FALSE)

SpecOpen == Init /\ [][OpenNext]_vars

(***************************************************************************)
(* SpecLive: text and snapshot messages of every mode, one receiving        *)
(* session that handles the INSERT event and opens snapshots, time, and a   *)
(* cleanup request that is invoked again and again and may fail.  A         *)
(* request that can run does run, a delete that is retried forever          *)
(* succeeds at last, and time advances as far as the model lets it.         *)
(***************************************************************************)
LiveSweep == \E fails \in BOOLEAN : CleanupSelect("w1", fails) \/ CleanupDelete("w1", fails)

LiveNext ==
    \/ SendText \/ SendSnapshot
    \/ Inserted({"b1"})
    \/ Opening({"b1"})
    \/ Time
    \/ LiveSweep

LiveFairness ==
    /\ WF_vars(CleanupSelect("w1", FALSE))
    /\ SF_vars(CleanupDelete("w1", FALSE))
    /\ WF_vars(Time)

SpecLive == Init /\ [][LiveNext]_vars /\ LiveFairness

(***************************************************************************)
(* Runs of the codec functions on drawn inputs.                             *)
(***************************************************************************)
(* Random choices of one encryption: AES keys and nonces. *)
AesKeyIds == {1, 2}
Nonces == {1, 2}

(* The hybrid envelope sendMessage builds for the recipients rcpts. *)
Envelope(text, aesKey, iv, mediaIv, rcpts) ==
    JSONstringify([content |-> encryptWithAES(text, aesKey, iv).content,
                   iv |-> encryptWithAES(text, aesKey, iv).iv,
                   key |-> Undefined,
                   keys |-> KeysMap([u \in rcpts |->
                               encryptAESKeyForUser(aesKey, PublicKey(u)).v]),
                   media_iv |-> mediaIv,
                   v |-> "undefined"])

(* Inputs of the codec runs. *)
CodecInputs ==
    \/ \E P \in Texts, K \in Users, D \in Users :
          codec = [kind |-> "roundtrip", stage |-> "start", P |-> P, K |-> K, D |-> D,
                   str |-> Undefined, out |-> <<>>]
    \/ \E P \in Texts, K \in Users, D \in Users :
          /\ RsaEncrypt(PublicKey(K), TextEncode(P)).ok
          /\ codec = [kind |-> "legacy", stage |-> "encrypted", P |-> P, K |-> K, D |-> D,
                      str |-> bufferToBase64(RsaEncrypt(PublicKey(K), TextEncode(P)).v),
                      out |-> <<>>]
    \/ \E P \in {<<"a">>, <<>>}, rcpts \in SUBSET Users, D \in Users,
          hasKey \in BOOLEAN, a \in AesKeyIds :
          codec = [kind |-> "content", stage |-> "encrypted", P |-> P, rcpts |-> rcpts,
                   D |-> D,
                   privateKey |-> IF hasKey THEN PrivateKey(D) ELSE Undefined,
                   msg |-> [encrypted_content |->
                                Envelope(P, generateAESKey(a), 1, Undefined, rcpts),
                            media_type |-> "text", media_url |-> Undefined],
                   out |-> Returned(Undefined, FALSE)]
    \/ \E P \in Texts, s \in {"a1", "b1"} :
          codec = [kind |-> "send", stage |-> "start", P |-> P, s |-> s,
                   msg |-> NoRow, outS |-> Undefined, outR |-> Undefined]

CodecInit == ChatInit /\ CodecInputs

(* encryptMessage(P, K.public). *)
CodecEncrypt ==
    /\ codec.kind = "roundtrip" /\ codec.stage = "start"
    /\ \E a \in AesKeyIds, iv \in Nonces, hybridFails \in BOOLEAN :
          LET r == encryptMessage(codec.P, PublicKey(codec.K), generateAESKey(a), iv,
                                  hybridFails)
          IN  codec' = IF r.ok
                       THEN [codec EXCEPT !.stage = "encrypted", !.str = r.v]
                       ELSE [codec EXCEPT !.stage = "threw"]
    /\ UNCHANGED chatVars

(* decryptMessage(str, D.private). *)
CodecDecrypt ==
    /\ codec.kind \in {"roundtrip", "legacy"} /\ codec.stage = "encrypted"
    /\ codec' = [codec EXCEPT !.stage = "done",
                              !.out = decryptMessage(codec.str, PrivateKey(codec.D))]
    /\ UNCHANGED chatVars

(* decryptMessageContent(msg) in a session of identity D. *)
CodecDecryptContent ==
    /\ codec.kind = "content" /\ codec.stage = "encrypted"
    /\ codec' = [codec EXCEPT !.stage = "done",
                              !.out = decryptMessageContent(codec.msg, codec.D,
                                                            codec.privateKey, Throw)]
    /\ UNCHANGED chatVars

(* sendMessage("text") with P in the input field, up to the record. *)
CodecSend ==
    /\ codec.kind = "send" /\ codec.stage = "start"
    /\ \E a \in AesKeyIds, iv \in Nonces :
          LET r == sendMessageBuild(codec.s, codec.P, "text", Undefined, "none",
                                    profiles[ContactOf(codec.s)], profiles[UserOf(codec.s)],
                                    myPublicKey[codec.s], a, iv, iv, 1, clock)
          IN  codec' = IF r.ok
                       THEN [codec EXCEPT !.stage = "sent", !.msg = r.row]
                       ELSE [codec EXCEPT !.stage = "stopped"]
    /\ UNCHANGED chatVars

(* decryptMessageContent(msg) in a session of the sender and in one of the  *)
(* receiver.                                                                *)
CodecDecryptPair ==
    /\ codec.kind = "send" /\ codec.stage = "sent"
    /\ LET S == codec.msg.sender_id
           R == codec.msg.receiver_id
       IN  codec' = [codec EXCEPT
              !.stage = "done",
              !.outS = decryptMessageContent(codec.msg, S, PrivateKey(S), Throw).v,
              !.outR = decryptMessageContent(codec.msg, R, PrivateKey(R), Throw).v]
    /\ UNCHANGED chatVars

CodecNext ==
    \/ CodecEncrypt \/ CodecDecrypt \/ CodecDecryptContent
    \/ CodecSend \/ CodecDecryptPair

SpecCodec == CodecInit /\ [][CodecNext]_vars

(***************************************************************************)
(* SpecCleanup: the cleanup route alone, on a messages table of any         *)
(* content.  is_saved is a column no code of the Chat component writes, so  *)
(* the table is drawn: each record viewed or not, is_saved null, false or   *)
(* true, expires_at null or a time.  The store answers every request; time  *)
(* passes; the two cleanup requests are the only writers.  born keeps the   *)
(* table as it was drawn.                                                   *)
(***************************************************************************)
MaxRows == 2

ExpiryTimes == {NULL, 1, 180}

StoredRow(id, viewed, saved, exp) ==
    [id |-> id,
     sender_id |-> "alice",
     receiver_id |-> "bob",
     encrypted_content |-> Envelope(<<"a">>, generateAESKey(1), 1, Undefined, {"alice", "bob"}),
     media_type |-> "text",
     media_url |-> Undefined,
     is_viewed |-> viewed,
     is_view_once |-> FALSE,
     is_disappearing |-> FALSE,
     disappearing_duration |-> NULL,
     expires_at |-> exp,
     viewed_at |-> IF viewed THEN 0 ELSE NULL,
     view_count |-> 0,
     is_saved |-> saved,
     is_delivered |-> FALSE,
     delivered_at |-> NULL,
     created_at |-> 0]

StoredRows(id) ==
    {NoRow} \cup {StoredRow(id, viewed, saved, exp) :
                     viewed \in BOOLEAN, saved \in {"null", "false", "true"},
                     exp \in ExpiryTimes}

CleanupInit ==
    /\ codec = CodecIdle
    /\ rows \in {t \in [1 .. MaxRows -> UNION {StoredRows(id) : id \in 1 .. MaxRows}] :
                    \A id \in 1 .. MaxRows : t[id] \in StoredRows(id)}
    /\ born = rows
    /\ nextId = MaxRows + 1
    /\ storage = [id \in MsgIds |-> Undefined]
    /\ profiles = [u \in Users |-> exportPublicKey(PublicKey(u))]
    /\ clock = 0
    /\ ticks = 0
    /\ messages = [s \in Sessions |-> [id \in MsgIds |-> NoCopy]]
    /\ delivered = [s \in Sessions |-> [id \in MsgIds |-> FALSE]]
    /\ showSnapshotView = [s \in Sessions |-> 0]
    /\ fetch = [s \in Sessions |-> <<>>]
    /\ myPublicKey = [s \in Sessions |-> Undefined]
    /\ sweep = [w \in Sweepers |-> SweepIdle]
    /\ quiet = FALSE
    /\ sent = [id \in MsgIds |-> NotSent]
    /\ openLog = [id \in MsgIds |-> <<>>]

CleanupNext ==
    \/ Time
    \/ \E w \in Sweepers : CleanupSelect(w, FALSE) \/ CleanupDelete(w, FALSE)

SpecCleanup == CleanupInit /\ [][CleanupNext]_vars

(***************************************************************************)
(* SpecSend: sendMessage in alice's and in bob's session, on a profiles     *)
(* table whose public_key columns are drawn: the identity's key, null, a    *)
(* text that is not base64, or base64 of something that is no key.          *)
(***************************************************************************)
ProfileValues(u) ==
    {exportPublicKey(PublicKey(u)), Undefined, Str(<<"a">>),
     bufferToBase64([t |-> "utf8", s |-> <<"a">>])}

SendInit ==
    /\ codec = CodecIdle
    /\ rows = [id \in MsgIds |-> NoRow]
    /\ born = [id \in MsgIds |-> NoRow]
    /\ nextId = 1
    /\ storage = [id \in MsgIds |-> Undefined]
    /\ \E pa \in ProfileValues("alice"), pb \in ProfileValues("bob") :
          profiles = [u \in Users |->
                        IF u = "alice" THEN pa
                        ELSE IF u = "bob" THEN pb
                        ELSE exportPublicKey(PublicKey(u))]
    /\ clock = 0
    /\ ticks = 0
    /\ messages = [s \in Sessions |-> [id \in MsgIds |-> NoCopy]]
    /\ delivered = [s \in Sessions |-> [id \in MsgIds |-> FALSE]]
    /\ showSnapshotView = [s \in Sessions |-> 0]
    /\ fetch = [s \in Sessions |-> <<>>]
    /\ myPublicKey = [s \in Sessions |-> Undefined]
    /\ sweep = [w \in Sweepers |-> SweepIdle]
    /\ quiet = FALSE
    /\ sent = [id \in MsgIds |-> NotSent]
    /\ openLog = [id \in MsgIds |-> <<>>]

Senders == {"a1", "b1"}

SendNext ==
    \/ \E s \in Senders : InitMyPublicKey(s)
    \/ \E s \in Senders, newMessage \in {<<>>, <<"a">>, <<"sp">>}, snap \in BOOLEAN,
          mode \in Modes, a \in AesKeyIds, iv \in Nonces :
          SendMessage(s, newMessage, IF snap THEN "snapshot" ELSE "text",
                      IF snap THEN SnapshotBlob ELSE Undefined, mode, a, iv, iv)

SpecSend == SendInit /\ [][SendNext]_vars

(***************************************************************************)
(* SpecBatch: fetchMessages on a conversation of MaxRows records of any     *)
(* content.  Each record is drawn from BatchKinds: a text or a snapshot     *)
(* that decrypts, an envelope with no key for bob, an envelope whose key    *)
(* for bob was wrapped for another identity, a content encrypted under      *)
(* another AES key than the wrapped one, the JSON text null, an empty       *)
(* encrypted_content, a snapshot whose blob is gone from storage and a      *)
(* snapshot without media_url.  Sessions a1 and b1 fetch.                   *)
(***************************************************************************)
BatchKinds ==
    {"good", "snapshot", "nokey", "wrongkey", "tampered", "jsonnull", "empty",
     "blobgone", "nourl"}

BatchPacket(kind) ==
    LET aesKey == generateAESKey(1)
        encrypted == encryptWithAES(<<"a">>, IF kind = "tampered" THEN generateAESKey(2) ELSE aesKey, 1)
        rcpts == IF kind = "nokey" THEN {"alice", "carol"} ELSE {"alice", "bob"}
    IN  [iv |-> encrypted.iv,
         content |-> encrypted.content,
         media_iv |-> IF kind \in {"snapshot", "blobgone", "nourl"}
                      THEN encryptBlob(SnapshotBlob, aesKey, 2).iv ELSE Undefined,
         keys |-> KeysMap([u \in rcpts |->
                     encryptAESKeyForUser(aesKey,
                         IF kind = "wrongkey" /\ u = "bob" THEN PublicKey("carol")
                         ELSE PublicKey(u)).v]),
         key |-> Undefined,
         v |-> "undefined"]

BatchRow(id, kind) ==
    [StoredRow(id, FALSE, "null", NULL) EXCEPT
        !.encrypted_content = IF kind = "jsonnull" THEN [t |-> "jsonnull"]
                              ELSE IF kind = "empty" THEN [t |-> "empty"]
                              ELSE JSONstringify(BatchPacket(kind)),
        !.media_type = IF kind \in {"snapshot", "blobgone", "nourl"} THEN "snapshot" ELSE "text",
        !.media_url = IF kind \in {"snapshot", "blobgone"} THEN [t |-> "url", path |-> id]
                      ELSE Undefined]

BatchBlob(kind) ==
    IF kind = "snapshot" THEN encryptBlob(SnapshotBlob, generateAESKey(1), 2).encryptedBlob
    ELSE Undefined

BatchInit ==
    /\ codec = CodecIdle
    /\ \E kinds \in [1 .. MaxRows -> BatchKinds] :
          /\ rows = [id \in 1 .. MaxRows |-> BatchRow(id, kinds[id])]
          /\ storage = [id \in 1 .. MaxRows |-> BatchBlob(kinds[id])]
    /\ born = rows
    /\ nextId = MaxRows + 1
    /\ profiles = [u \in Users |-> exportPublicKey(PublicKey(u))]
    /\ clock = 0
    /\ ticks = 0
    /\ messages = [s \in Sessions |-> [id \in MsgIds |-> NoCopy]]
    /\ delivered = [s \in Sessions |-> [id \in MsgIds |-> FALSE]]
    /\ showSnapshotView = [s \in Sessions |-> 0]
    /\ fetch = [s \in Sessions |-> <<>>]
    /\ myPublicKey = [s \in Sessions |-> Undefined]
    /\ sweep = [w \in Sweepers |-> SweepIdle]
    /\ quiet = FALSE
    /\ sent = [id \in MsgIds |-> NotSent]
    /\ openLog = [id \in MsgIds |-> <<>>]

BatchNext == \E s \in {"a1", "b1"} : FetchSelect(s) \/ FetchUpdate(s)

SpecBatch == BatchInit /\ [][BatchNext]_vars

(***************************************************************************)
(* SpecStored: decryptMessageContent on stored records whose                *)
(* encrypted_content is not a hybrid envelope: the base64 text of an        *)
(* RSA-OAEP ciphertext made for K, a text that is neither base64 nor JSON,  *)
(* and a JSON object without iv, without content or without keys.  The      *)
(* session is one of identity D holding its private key.                    *)
(***************************************************************************)
StoredContents ==
    {bufferToBase64(RsaEncrypt(PublicKey(K), TextEncode(P)).v) :
         K \in Users, P \in {Q \in Texts : RsaEncrypt(PublicKey("alice"), TextEncode(Q)).ok}}
    \cup {Str(<<"a">>)}
    \cup {JSONstringify([BatchPacket("good") EXCEPT ![f] = Undefined]) :
             f \in {"iv", "content", "keys"}}

StoredInit ==
    /\ ChatInit
    /\ \E content \in StoredContents, D \in Users :
          codec = [kind |-> "content", stage |-> "encrypted", P |-> <<>>, rcpts |-> {},
                   D |-> D, privateKey |-> PrivateKey(D),
                   msg |-> [encrypted_content |-> content,
                            media_type |-> "text", media_url |-> Undefined],
                   out |-> Returned(Undefined, FALSE)]

SpecStored == StoredInit /\ [][CodecDecryptContent]_vars

(***************************************************************************)
(* The clear-chat route (src/app/api/messages/clear/route.ts).  userId and  *)
(* contactId are the two properties of the request body: an identity, the   *)
(* empty string or nothing ("undefined").  codec holds the last request     *)
(* and its answer.  fails is an error answer of the store.                  *)
(***************************************************************************)
ClearParams == Users \cup {"", "undefined"}

(* !userId *)
Missing(param) == param \in {"", "undefined"}

(* The filter of the delete, sender and receiver in one direction only. *)
ClearSelectsOneWay(row, userId, contactId) ==
    row.sender_id = userId /\ row.receiver_id = contactId

(* .or(`and(sender_id.eq.${userId},receiver_id.eq.${contactId}),            *)
(*      and(sender_id.eq.${contactId},receiver_id.eq.${userId})`)           *)
ClearSelects(row, userId, contactId) ==
    \/ row.sender_id = userId /\ row.receiver_id = contactId
    \/ row.sender_id = contactId /\ row.receiver_id = userId

ClearIdle == [kind |-> "clear", stage |-> "idle", userId |-> "", contactId |-> "", status |-> 0]

ClearChat(userId, contactId, fails) ==
    /\ codec.kind = "clear"
    /\ IF Missing(userId) \/ Missing(contactId)
       THEN /\ codec' = [kind |-> "clear", stage |-> "done", userId |-> userId,
                         contactId |-> contactId, status |-> 400]
            /\ UNCHANGED rows
       ELSE IF fails
       THEN /\ codec' = [kind |-> "clear", stage |-> "done", userId |-> userId,
                         contactId |-> contactId, status |-> 500]
            /\ UNCHANGED rows
       ELSE /\ codec' = [kind |-> "clear", stage |-> "done", userId |-> userId,
                         contactId |-> contactId, status |-> 200]
            /\ rows' = [id \in DOMAIN rows |->
                           IF rows[id] # NoRow /\ ClearSelects(rows[id], userId, contactId)
                           THEN NoRow ELSE rows[id]]
    /\ UNCHANGED <<born, nextId, storage, profiles, clock, ticks, messages, delivered,
                   showSnapshotView, fetch, myPublicKey, sweep, quiet, sent, openLog>>

(***************************************************************************)
(* SpecClear: clear-chat requests on a messages table of any content: each  *)
(* record between any two identities, viewed or not, is_saved null or true. *)
(* born keeps the table as drawn.                                           *)
(***************************************************************************)
ClearRows(id) ==
    {NoRow} \cup {[StoredRow(id, viewed, saved, NULL) EXCEPT !.sender_id = pair[1],
                                                             !.receiver_id = pair[2]] :
                     viewed \in BOOLEAN, saved \in {"null", "true"},
                     pair \in {p \in Users \X Users : p[1] # p[2]}}

ClearInit ==
    /\ codec = ClearIdle
    /\ rows \in {t \in [1 .. MaxRows -> UNION {ClearRows(id) : id \in 1 .. MaxRows}] :
                    \A id \in 1 .. MaxRows : t[id] \in ClearRows(id)}
    /\ born = rows
    /\ nextId = MaxRows + 1
    /\ storage = [id \in MsgIds |-> Undefined]
    /\ profiles = [u \in Users |-> exportPublicKey(PublicKey(u))]
    /\ clock = 0
    /\ ticks = 0
    /\ messages = [s \in Sessions |-> [id \in MsgIds |-> NoCopy]]
    /\ delivered = [s \in Sessions |-> [id \in MsgIds |-> FALSE]]
    /\ showSnapshotView = [s \in Sessions |-> 0]
    /\ fetch = [s \in Sessions |-> <<>>]
    /\ myPublicKey = [s \in Sessions |-> Undefined]
    /\ sweep = [w \in Sweepers |-> SweepIdle]
    /\ quiet = FALSE
    /\ sent = [id \in MsgIds |-> NotSent]
    /\ openLog = [id \in MsgIds |-> <<>>]

ClearNext ==
    \E userId \in ClearParams, contactId \in ClearParams, fails \in BOOLEAN :
        ClearChat(userId, contactId, fails)

SpecClear == ClearInit /\ [][ClearNext]_vars

(***************************************************************************)
(* C1.  Round trip: for every plaintext P and key pair K,                   *)
(* decryptMessage(encryptMessage(P, K.public), K.private) returns P, on     *)
(* the hybrid path and on the RSA fallback path.                            *)
(* The code breaks it: TextDecoder drops a leading U+FEFF and TextEncoder   *)
(* replaces an unpaired surrogate by U+FFFD.                                *)
(***************************************************************************)
C1_RoundTrip ==
    (codec.kind = "roundtrip" /\ codec.stage = "done" /\ codec.D = codec.K)
        => codec.out = codec.P

(***************************************************************************)
(* C4.  Legacy compatibility: a bare base64 RSA-OAEP ciphertext of P made   *)
(* for K, with no v tag, is decrypted by decryptMessage with K.private to   *)
(* P through the legacy path.  Broken by the same lossy text decoding as    *)
(* C1.                                                                      *)
(***************************************************************************)
C4_LegacyDecrypts ==
    (codec.kind = "legacy" /\ codec.stage = "done" /\ codec.D = codec.K)
        => /\ ~JSONparse(codec.str).ok
           /\ codec.out = codec.P

(***************************************************************************)
(* C3.  Unknown recipient: decryptMessageContent on a hybrid envelope       *)
(* whose keys map has no entry for the session's identity returns the       *)
(* key-mismatch placeholder, hands nothing to the key unwrapping (no        *)
(* decryption is attempted) and so returns no plaintext.                    *)
(***************************************************************************)
C3_UnknownRecipient ==
    (codec.kind = "content" /\ codec.stage = "done" /\ codec.D \notin codec.rcpts)
        => /\ codec.out.v = Str(KeyMismatch)
           /\ ~codec.out.unwrap

C3_Witness ==
    /\ codec.kind = "content" /\ codec.stage = "done"
    /\ codec.D = "carol" /\ codec.rcpts = {"alice", "bob"}
    /\ codec.P = <<"a">>
    /\ codec.privateKey = PrivateKey("carol")
    /\ codec.out.v = Str(KeyMismatch)

(***************************************************************************)
(* C2.  For every text message with non-empty text P that sendMessage       *)
(* sends from S to R, decryptMessageContent under S's identity and private  *)
(* key and under R's both return P.  P is the text as sent, after trim().   *)
(* The code breaks it for a text with an unpaired surrogate: the lossy      *)
(* TextEncoder of C1.                                                       *)
(***************************************************************************)
C2_BothPartiesDecrypt ==
    (codec.kind = "send" /\ codec.stage = "done")
        => /\ codec.outS = Str(trim(codec.P))
           /\ codec.outR = Str(trim(codec.P))

(***************************************************************************)
(* C5.  For a snapshot with view_count 0, the receiver's first              *)
(* openSnapshot call displays the content and leaves the stored view_count  *)
(* at 1; the receiver's second call is rejected.  Stated for a second call  *)
(* made on an up-to-date copy, which shows view_count 1.  The code rejects  *)
(* from view_count 2 on only, so the second call is displayed too.          *)
(***************************************************************************)
C5_SecondOpenRejected ==
    \A id \in MsgIds :
        /\ (Len(openLog[id]) >= 1 /\ openLog[id][1].seen = 0)
               => /\ openLog[id][1].outcome = "displayed"
                  /\ openLog[id][1].stored \in {1, NULL}
        /\ (Len(openLog[id]) >= 2 /\ openLog[id][2].seen = 1)
               => openLog[id][2].outcome = "rejected"

(***************************************************************************)
(* C6.  In every reachable state, whatever openSnapshot calls any sessions  *)
(* have made, on stale copies too, the stored view_count of a message is    *)
(* at most 2.                                                               *)
(***************************************************************************)
C6_ViewCountAtMostTwo ==
    \A id \in MsgIds : rows[id] # NoRow => rows[id].view_count <= 2

C6_Witness ==
    \E id \in MsgIds :
        /\ rows[id] # NoRow /\ rows[id].view_count = 2
        /\ Local("b1", id) # NoRow /\ Local("b1", id).view_count = 0
        /\ Local("b2", id) # NoRow /\ Local("b2", id).view_count = 2
        /\ Len(openLog[id]) = 2 /\ openLog[id][2].seen = 1

(***************************************************************************)
(* C7.  For a message sent under a _view mode of duration d minutes, the    *)
(* update of the receiver's first view, computed at time T by               *)
(* fetchMessages or by the INSERT handler, sets is_viewed, viewed_at = T    *)
(* and expires_at = T + d together.                                         *)
(***************************************************************************)
C7_FirstViewSchedulesExpiry ==
    [][\A id \in MsgIds :
          (/\ rows[id] # NoRow /\ rows'[id] # NoRow
           /\ EndsWithView(sent[id].mode)
           /\ rows[id].viewed_at = NULL
           /\ rows'[id].viewed_at # NULL)
          => /\ rows'[id].is_viewed
             /\ rows'[id].viewed_at \in sent[id].at .. clock
             /\ rows'[id].expires_at = rows'[id].viewed_at + DurationOf(sent[id].mode)
             /\ DurationOf(sent[id].mode) \in {1, 60, 180}]_vars

C7_Witness ==
    \E id \in MsgIds :
        /\ rows[id] # NoRow
        /\ sent[id].mode = "1h_view" /\ sent[id].at = 0
        /\ rows[id].is_viewed
        /\ rows[id].viewed_at = 1
        /\ rows[id].expires_at = 61

(***************************************************************************)
(* C8.  A message sent at T0 under the absolute mode 3h (1m) is stored      *)
(* with expires_at = T0 + 180 minutes (T0 + 1 minute), and no view event,   *)
(* in any order or number, changes it.                                      *)
(***************************************************************************)
C8_AbsoluteExpiryFixed ==
    \A id \in MsgIds :
        (rows[id] # NoRow /\ sent[id].mode \in {"3h", "1m"})
            => rows[id].expires_at =
                   sent[id].at + (IF sent[id].mode = "3h" THEN 180 ELSE 1)

C8_Witness ==
    \E id \in MsgIds :
        /\ rows[id] # NoRow
        /\ sent[id].mode = "3h" /\ sent[id].at = 1
        /\ rows[id].viewed_at = 61
        /\ rows[id].view_count = 2
        /\ rows[id].expires_at = 181

(***************************************************************************)
(* C9.  A message sent under mode none has expires_at = null in every       *)
(* reachable state in which the record exists, whatever view events were    *)
(* applied to it.                                                           *)
(***************************************************************************)
C9_NoneNeverExpires ==
    \A id \in MsgIds :
        (rows[id] # NoRow /\ sent[id].mode = "none") => rows[id].expires_at = NULL

C9_Witness ==
    \E id \in MsgIds :
        /\ rows[id] # NoRow
        /\ sent[id].mode = "none"
        /\ rows[id].is_viewed /\ rows[id].is_delivered
        /\ rows[id].viewed_at = 180
        /\ rows[id].view_count = 2
        /\ rows[id].expires_at = NULL

(***************************************************************************)
(* C10.  Of two cleanup runs in succession, with no change to the store     *)
(* and no expiry passing in between, the first deletes what it selected     *)
(* and the second selects and deletes nothing and reports deleted: 0.       *)
(***************************************************************************)
C10_SecondSweepDeletesNothing ==
    /\ quiet => Selected(clock) = {}
    /\ \A w \in Sweepers :
          sweep[w].after => /\ sweep[w].pc = "done"
                            /\ sweep[w].ids = {}
                            /\ sweep[w].deleted = 0

C10_Witness ==
    /\ sweep["w1"].pc = "done" /\ sweep["w1"].status = 200
    /\ sweep["w1"].deleted = 1 /\ ~sweep["w1"].after
    /\ rows[1] = NoRow
    /\ sweep["w2"].pc = "done" /\ sweep["w2"].status = 200
    /\ sweep["w2"].after /\ sweep["w2"].deleted = 0

(***************************************************************************)
(* C11.  The cleanup sweep selects exactly the ids with is_viewed = true    *)
(* AND (is_saved null or false) AND (expires_at null OR expires_at < now):  *)
(* never a viewed, unsaved message whose expires_at is in the future,       *)
(* never a viewed message with is_saved = true.  Stated on every select     *)
(* step of a request: the selection it leaves with, or the empty selection  *)
(* it answers "No messages to delete" on.                                   *)
(***************************************************************************)
C11_SelectsExactly ==
    [][\A w \in Sweepers :
          LET exact == {id \in DOMAIN rows :
                          /\ rows[id] # NoRow
                          /\ rows[id].is_viewed = TRUE
                          /\ rows[id].is_saved \in {"null", "false"}
                          /\ (rows[id].expires_at = NULL \/ rows[id].expires_at < clock)}
          IN  /\ (sweep[w].pc \in {"idle", "done"} /\ sweep'[w].pc = "selected")
                    => (sweep'[w].ids = exact /\ exact # {})
              /\ (sweep[w].pc = "idle" /\ sweep'[w].pc = "done")
                    => (exact = {} /\ sweep'[w].deleted = 0)]_vars

C11_Witness ==
    /\ clock = 1
    /\ sweep["w1"].pc = "selected" /\ sweep["w1"].ids = {1}
    /\ rows[1] # NoRow /\ rows[1].is_saved = "false" /\ rows[1].expires_at = NULL
    /\ rows[2] # NoRow /\ rows[2].is_viewed /\ rows[2].is_saved = "null"
    /\ rows[2].expires_at = 180

(***************************************************************************)
(* C12.  Two cleanup requests run concurrently, with no other writer:       *)
(* whatever the interleaving of their select and delete steps, neither      *)
(* answers with an error, and once both have answered the table is the one  *)
(* a single sweep leaves: the table as it was, less what the selection      *)
(* takes at some time t up to now.                                          *)
(***************************************************************************)
C12_ConcurrentSweeps ==
    /\ \A w \in Sweepers : sweep[w].status # 500
    /\ (\A w \in Sweepers : sweep[w].pc = "done")
          => \E t \in 0 .. clock :
                rows = [id \in DOMAIN born |->
                          IF born[id] # NoRow /\ CleanupSelects(born[id], t)
                          THEN NoRow ELSE born[id]]

C12_Witness ==
    /\ sweep["w1"].pc = "done" /\ sweep["w1"].status = 200 /\ sweep["w1"].ids = {1}
    /\ sweep["w2"].pc = "done" /\ sweep["w2"].status = 200 /\ sweep["w2"].ids = {1, 2}
    /\ born[1] # NoRow /\ born[2] # NoRow
    /\ rows[1] = NoRow /\ rows[2] = NoRow

(***************************************************************************)
(* C13.  openSnapshot's view_count update is conditional on the stored      *)
(* view_count it was computed from: of two receiver calls that both saw     *)
(* view_count = n at most one applies its increment and displays, so after  *)
(* k displayed opens the stored view_count is k.  The code's update is      *)
(* unconditional: both calls display and both store n + 1.                  *)
(***************************************************************************)
C13_OpenIsCompareAndSet ==
    \A id \in MsgIds :
        /\ (Len(openLog[id]) = 2 /\ openLog[id][1].seen = openLog[id][2].seen)
              => ~(openLog[id][1].outcome = "displayed" /\ openLog[id][2].outcome = "displayed")
        /\ \A i \in 1 .. Len(openLog[id]) :
              openLog[id][i].outcome = "displayed"
                  => openLog[id][i].stored =
                         Cardinality({j \in 1 .. i : openLog[id][j].outcome = "displayed"})

(***************************************************************************)
(* C14.  The mark-as-viewed update is applied at most once per message:     *)
(* once the receiver's first view has set viewed_at (and expires_at), no    *)
(* later or concurrent run of fetchMessages or of the INSERT handler        *)
(* changes viewed_at or expires_at.  In the code the INSERT handler's       *)
(* update is unconditional and fetchMessages sends the updates it computed  *)
(* from the rows as it selected them.                                       *)
(***************************************************************************)
C14_ViewedAtMostOnce ==
    [][\A id \in MsgIds :
          (rows[id] # NoRow /\ rows'[id] # NoRow /\ rows[id].viewed_at # NULL)
              => /\ rows'[id].viewed_at = rows[id].viewed_at
                 /\ rows'[id].expires_at = rows[id].expires_at]_vars

(***************************************************************************)
(* C15.  Every record sendMessage inserts carries an envelope whose keys    *)
(* map has exactly one entry per intended recipient, the sender and the     *)
(* receiver, each unwrapping under that identity's private key to the AES   *)
(* key that decrypts content; and when a public key cannot be imported (or  *)
(* a wrapping fails) no record is inserted: a record exists only if both    *)
(* profiles hold an importable key.                                         *)
(***************************************************************************)
C15_EnvelopeComplete ==
    \A id \in MsgIds :
        rows[id] # NoRow =>
            LET packet == JSONparse(rows[id].encrypted_content)
                rcpts == {rows[id].sender_id, rows[id].receiver_id}
            IN  /\ packet.ok
                /\ packet.v.keys.t = "map"
                /\ DOMAIN packet.v.keys.m = rcpts
                /\ \A u \in rcpts :
                      LET k == decryptAESKeyWithUserPrivateKey(packet.v.keys.m[u],
                                                               PrivateKey(u))
                      IN  /\ k.ok
                          /\ decryptWithAES(packet.v.content, packet.v.iv, k.v).ok
                /\ \A u \in rcpts : importPublicKey(profiles[u]).ok

C15_Witness ==
    /\ rows[1] # NoRow
    /\ rows[1].sender_id = "bob" /\ rows[1].receiver_id = "alice"
    /\ rows[1].media_type = "snapshot"
    /\ DOMAIN JSONparse(rows[1].encrypted_content).v.keys.m = {"alice", "bob"}
    /\ storage[1] # Undefined

(***************************************************************************)
(* C16.  In fetchMessages, a decryption failure on any subset of the        *)
(* records of the batch yields a placeholder for exactly those records and  *)
(* the decrypted content for all the others; decryptMessageContent never    *)
(* throws, so the message list is set with one entry per record.            *)
(* A record fails for a session when its envelope holds no key for the      *)
(* session's user, a key wrapped for somebody else, a content under another *)
(* key, no envelope at all, or media that cannot be fetched.                *)
(***************************************************************************)
C16_Fails(kind, uid) ==
    \/ kind \in {"tampered", "jsonnull", "empty", "blobgone", "nourl"}
    \/ kind \in {"nokey", "wrongkey"} /\ uid = "bob"

C16_Expected(kind, uid) ==
    IF C16_Fails(kind, uid)
    THEN IF kind = "nokey" THEN [t |-> "text", s |-> KeyMismatch]
         ELSE IF kind = "empty" THEN [t |-> "text", s |-> EmptySignal]
         ELSE IF kind = "nourl" THEN [t |-> "text", s |-> MediaMissing]
         ELSE [t |-> "text", s |-> SecureSignal]
    ELSE IF kind = "snapshot"
         THEN [t |-> "objecturl",
               blob |-> [t |-> "blob", data |-> SnapshotBlob, type |-> "image/jpeg"]]
         ELSE [t |-> "text", s |-> <<"a">>]

C17_ExpiredAbsoluteSelected ==
    [][\A w \in Sweepers : \A id \in DOMAIN rows :
          (/\ sweep[w].pc \in {"idle", "done"}
           /\ sweep'[w] # sweep[w]
           /\ rows' = rows
           /\ rows[id] # NoRow
           /\ sent[id].mode \in {"1m", "3h"}
           /\ rows[id].expires_at # NULL
           /\ rows[id].expires_at < clock)
              => id \in sweep'[w].ids]_vars

(***************************************************************************)
(* C18.  A message sent under mode view, once viewed by its receiver and    *)
(* not saved, is selected by the next cleanup sweep and stays selectable    *)
(* until it is deleted, for every media type including snapshot: as long as *)
(* the viewed record is in the table it satisfies the sweep's selection.    *)
(* The code breaks it for snapshots: the first openSnapshot of the receiver *)
(* stores is_viewed = false again.                                          *)
(***************************************************************************)
C18_ViewedStaysSelectable ==
    \A id \in DOMAIN rows :
        (/\ rows[id] # NoRow
         /\ sent[id].mode = "view"
         /\ rows[id].viewed_at # NULL
         /\ rows[id].is_saved # "true")
            => id \in Selected(clock)

(***************************************************************************)
(* C19.  Whenever the stored view_count of a snapshot message reaches 2,    *)
(* further openSnapshot calls of the receiver are rejected, and the record  *)
(* satisfies the cleanup sweep's selection condition at the next sweep,     *)
(* whatever auto-delete mode the message was sent under.  Stated on every   *)
(* step: no openSnapshot call displays a snapshot whose stored view_count   *)
(* is 2 (the INSERT handler, which changes delivered, is not such a call),  *)
(* and a snapshot record left with view_count 2 is one the sweep selects.   *)
(* The code breaks it: the sweep also asks for expires_at null or past,     *)
(* and openSnapshot tests the session's copy, not the stored view_count.    *)
(***************************************************************************)
C19_TwoViewsEndSnapshot ==
    [][\A id \in DOMAIN rows :
          /\ (rows[id] # NoRow /\ rows[id].view_count >= 2)
                => \A s \in Receivers :
                      ~(/\ delivered' = delivered
                        /\ showSnapshotView[s] # id
                        /\ showSnapshotView'[s] = id)
          /\ (rows'[id] # NoRow /\ rows'[id].media_type = "snapshot"
                /\ rows'[id].view_count = 2)
                => id \in Selected(clock)']_vars

(***************************************************************************)
(* C20.  For each mode in {none, view, 1m_view, 1h_view, 3h_view, 1m, 3h}   *)
(* the record built by sendMessage has is_view_once = (mode = view),        *)
(* is_disappearing = (mode ends with _view), disappearing_duration = 1, 60, *)
(* 180 for 1m_view, 1h_view, 3h_view and null otherwise, and expires_at     *)
(* non-null only for the absolute modes 1m and 3h; hence expires_at is      *)
(* never set at send time on a record with is_disappearing = true.          *)
(* Stated on every record as it was inserted.                               *)
(***************************************************************************)
C20_ModeFields ==
    \A id \in DOMAIN born :
        born[id] # NoRow =>
            LET mode == sent[id].mode
                r == born[id]
            IN  /\ mode \in Modes
                /\ r.is_view_once = (mode = "view")
                /\ r.is_disappearing = (mode \in {"1m_view", "1h_view", "3h_view"})
                /\ r.disappearing_duration =
                      (IF mode = "1m_view" THEN 1
                       ELSE IF mode = "1h_view" THEN 60
                       ELSE IF mode = "3h_view" THEN 180
                       ELSE NULL)
                /\ (r.expires_at # NULL) = (mode \in {"1m", "3h"})
                /\ r.is_disappearing => r.expires_at = NULL

C20_Witness ==
    /\ born[1] # NoRow
    /\ sent[1].mode = "3h_view"
    /\ born[1].is_disappearing
    /\ born[1].disappearing_duration = 180
    /\ born[1].expires_at = NULL
    /\ ~born[1].is_view_once

(***************************************************************************)
(* C22.  For every stored encrypted_content that is not a hybrid envelope   *)
(* (it does not parse as JSON, or it parses but lacks the hybrid fields),   *)
(* decryptMessageContent decrypts the original string as legacy RSA-OAEP    *)
(* ciphertext with the local private key: its result is that decryption or  *)
(* a failure placeholder, never the stored string itself.                   *)
(* The code breaks it: decryptMessageContent returns msg.encrypted_content  *)
(* in both cases.                                                           *)
(***************************************************************************)
C22_LegacyContentDecrypted ==
    (codec.kind = "content" /\ codec.stage = "done") =>
        LET stored == codec.msg.encrypted_content
            parsed == JSONparse(stored)
            hybrid == /\ parsed.ok
                      /\ parsed.v # Undefined
                      /\ Truthy(parsed.v.iv) /\ Truthy(parsed.v.content)
                      /\ Truthy(parsed.v.keys)
            legacy == legacyDecrypt(stored, codec.privateKey)
        IN  ~hybrid =>
               /\ codec.out.v # stored
               /\ codec.out.v = (IF legacy.ok /\ legacy.v # <<>>
                                 THEN [t |-> "text", s |-> legacy.v]
                                 ELSE IF legacy.ok THEN [t |-> "text", s |-> EmptySignal]
                                 ELSE [t |-> "text", s |-> SecureSignal])

(***************************************************************************)
(* C23.  Every hybrid envelope that sendMessage persists as                 *)
(* encrypted_content is tagged v = "h1", so that a decoder applying the     *)
(* structural rule (v = "h1" plus keys, content, iv) classifies it as       *)
(* hybrid and not as legacy.  Stated on every stored record.                *)
(* The code breaks it: the packet sendMessage builds has no v property.     *)
(***************************************************************************)
C23_EnvelopeTagged ==
    \A id \in DOMAIN rows :
        rows[id] # NoRow =>
            LET parsed == JSONparse(rows[id].encrypted_content)
            IN  /\ parsed.ok
                /\ parsed.v # Undefined
                /\ parsed.v.v = "h1"
                /\ Truthy(parsed.v.keys)
                /\ Truthy(parsed.v.content)
                /\ Truthy(parsed.v.iv)

(***************************************************************************)
(* C24.  When sendMessage's multi-recipient encryption partially fails (the *)
(* partner's public key cannot be imported, or wrapping for one recipient   *)
(* fails), the send degrades to a single-recipient legacy ciphertext that   *)
(* is still persisted as a message record, rather than the whole send       *)
(* failing.  Stated on the sends that got as far as uploading their blob:   *)
(* when a public key of the pair cannot be imported, the send has left a    *)
(* record, and the record holds a bare base64 ciphertext.                   *)
(***************************************************************************)
C24_NotAKey(pem) == Truthy(pem) /\ (IF pem.t = "b64" THEN pem.of.t # "spki" ELSE TRUE)

C24_BadKey == \E u \in {"alice", "bob"} : C24_NotAKey(profiles[u])

C25_ViewedStaysViewed ==
    [][\A id \in DOMAIN rows :
          (rows[id] # NoRow /\ rows[id].is_viewed /\ rows'[id] # NoRow)
             => rows'[id].is_viewed]_vars

(***************************************************************************)
(* C26.  If cleanup sweeps keep being invoked and time advances, every      *)
(* message that its receiver has viewed and that is not saved is            *)
(* eventually deleted once its expires_at, if any, has passed; a sweep that *)
(* fails or is interrupted only delays this.                                *)
(* The code breaks it for snapshots: after the receiver's first             *)
(* openSnapshot the record has is_viewed = false and no sweep selects it.   *)
(***************************************************************************)
C26_ViewedEventuallyDeleted ==
    \A id \in MsgIds :
        (/\ rows[id] # NoRow
         /\ rows[id].viewed_at # NULL
         /\ rows[id].is_saved # "true"
         /\ (rows[id].expires_at = NULL \/ rows[id].expires_at < clock))
            ~> (rows[id] = NoRow)

(***************************************************************************)
(* C27.  In every reachable state, the number of times a snapshot's content *)
(* has been shown to its receiver (through openSnapshot or through the      *)
(* automatic display in the realtime INSERT handler) is at most the         *)
(* message's stored view_count.  Each receiver session that is showing the  *)
(* snapshot now has been shown it at least once, so the number of such      *)
(* sessions is at most the number of times shown, and must be at most       *)
(* view_count.                                                              *)
(* The code breaks it: the INSERT handler displays the snapshot without     *)
(* writing view_count.                                                      *)
(***************************************************************************)
C27_ShownAtMostViewCount ==
    \A id \in DOMAIN rows :
        (rows[id] # NoRow /\ rows[id].media_type = "snapshot") =>
            Cardinality({s \in Receivers : showSnapshotView[s] = id}) <= rows[id].view_count

(***************************************************************************)
(* C28.  The cleanup sweep never deletes a message that fails its selection *)
(* condition at the moment of deletion: a message whose is_saved becomes    *)
(* true, whose is_viewed becomes false or whose expires_at moves into the   *)
(* future between the sweep's select step and its delete step is not        *)
(* deleted.  Stated on every step that removes a record.                    *)
(* The code breaks it: the delete is .in("id", uniqueIds) with the ids of   *)
(* the select and no other filter.                                          *)
(***************************************************************************)
C28_DeletesOnlySelectable ==
    [][\A id \in DOMAIN rows :
          (rows[id] # NoRow /\ rows'[id] = NoRow) => CleanupSelects(rows[id], clock)]_vars

(***************************************************************************)
(* C29.  The cleanup sweep's selection does not depend on the mode a        *)
(* message was sent under: every viewed, unsaved message with expires_at =  *)
(* null is selected, so a message sent under mode none is deleted by the    *)
(* first sweep that runs after its receiver's first view.  Stated on every  *)
(* select step of a request: the ids it leaves with include every record    *)
(* of mode none that its receiver has viewed.                               *)
(* The code breaks it for snapshots, whose is_viewed the first openSnapshot *)
(* sets back to false.                                                      *)
(***************************************************************************)
C29_NoneDeletedAfterView ==
    [][\A w \in Sweepers : \A id \in DOMAIN rows :
          (/\ sweep[w].pc \in {"idle", "done"}
           /\ sweep'[w] # sweep[w]
           /\ sweep'[w].status # 500
           /\ rows' = rows
           /\ rows[id] # NoRow
           /\ sent[id].mode = "none"
           /\ rows[id].viewed_at # NULL
           /\ rows[id].is_saved # "true")
              => id \in sweep'[w].ids]_vars

(***************************************************************************)
(* C30.  The clear-chat POST with userId and contactId deletes exactly the  *)
(* messages whose (sender, receiver) is (userId, contactId) or (contactId,  *)
(* userId), whatever their lifecycle fields (including is_saved = true),    *)
(* and leaves every other message unchanged; when userId or contactId is    *)
(* missing it returns status 400 and deletes nothing.  Stated on every      *)
(* request, codec' being the request and its answer.                        *)
(***************************************************************************)
C30_ClearsExactlyThePair ==
    [][codec'.stage = "done" =>
          LET u == codec'.userId
              c == codec'.contactId
              hit == {id \in DOMAIN rows :
                         /\ rows[id] # NoRow
                         /\ \/ rows[id].sender_id = u /\ rows[id].receiver_id = c
                            \/ rows[id].sender_id = c /\ rows[id].receiver_id = u}
          IN  IF u \in {"", "undefined"} \/ c \in {"", "undefined"}
              THEN codec'.status = 400 /\ rows' = rows
              ELSE /\ codec'.status \in {200, 500}
                   /\ codec'.status = 200 =>
                         rows' = [id \in DOMAIN rows |-> IF id \in hit THEN NoRow ELSE rows[id]]
                   /\ codec'.status = 500 => rows' = rows]_vars

C30_Witness ==
    /\ codec.kind = "clear" /\ codec.stage = "done" /\ codec.status = 200
    /\ codec.userId = "alice" /\ codec.contactId = "bob"
    /\ born[1] # NoRow /\ born[1].sender_id = "bob" /\ born[1].receiver_id = "alice"
    /\ born[1].is_saved = "true"
    /\ rows[1] = NoRow
    /\ born[2] # NoRow /\ born[2].sender_id = "alice" /\ born[2].receiver_id = "carol"
    /\ rows[2] = born[2]

====
